---- MODULE Spec2Model ----
(***************************************************************************)
(* Model of compute_pipeline/src/main.rs: a one-shot Vulkan compute job.   *)
(* main() is a straight line of fallible steps (every Result is unwrapped  *)
(* or expected, so a failure panics and ends the process), running beside  *)
(* the GPU, which executes the submitted command buffer asynchronously and *)
(* signals a fence.  The host program counter pc walks the statements of   *)
(* main in source order; the GPU advances through the command buffer.      *)
(*                                                                         *)
(* The image extent is the literal 1024 in the source (lines 120, 144,     *)
(* 185, 204).  It is modelled by the pair extent = <<W, H>>, put wherever  *)
(* the source writes 1024, so that the arithmetic of the source            *)
(* (W * H * 4, W / 8) is evaluated on extents small enough to hold the     *)
(* image and buffer memory explicitly.                                     *)
(***************************************************************************)
EXTENDS Integers, Sequences, FiniteSets, TLC

(* ------------------------------ bounds -------------------------------- *)

\* Largest number of physical devices the driver enumerates.
MaxDevices == 2

\* Largest image width and height.
MaxDim == 9

(* ------------------------- program constants -------------------------- *)

\* The divisor of the dispatch expression, [1024 / 8, 1024 / 8, 1].
LocalSize == 8

\* Bytes per texel of Format::R8G8B8A8_UNORM, the 4 of 1024 * 1024 * 4.
Channels == 4

\* The descriptor set index passed to bind_descriptor_sets.
FirstSet == 0

(* ---------------------------- environment ----------------------------- *)

\* Queue flags of a queue family, as the driver reports them.
GraphicsFamily == {"GRAPHICS", "COMPUTE", "TRANSFER"}
ComputeFamily == {"COMPUTE", "TRANSFER"}

\* The queue families one physical device may report, in order.
FamilyLists ==
    { <<>>,
      <<ComputeFamily>>, <<GraphicsFamily>>,
      <<ComputeFamily, GraphicsFamily>>, <<GraphicsFamily, ComputeFamily>>,
      <<ComputeFamily, ComputeFamily>> }

\* What enumerate_physical_devices may yield: up to MaxDevices devices.
Enumerations == UNION { [1..n -> FamilyLists] : n \in 0..MaxDevices }

Extents == (1..MaxDim) \X (1..MaxDim)

\* A machine with one graphics-capable device, and an extent that, like
\* 1024 x 1024, is a multiple of the workgroup size in both directions.
RefMachine == << <<GraphicsFamily>> >>
RefExtent == <<LocalSize, LocalSize>>

\* What the uninitialised memory of a new image may hold: a zeroed page,
\* or whatever an earlier use of the memory left there.
Garbage == {"zeros", "stale"}

Uninitialised(g, p) ==
    IF g = "zeros" THEN <<0, 0, 0, 0>>
    ELSE <<(7 * p[1] + 3) % 256, (11 * p[2] + 5) % 256, 205, (p[1] + p[2]) % 256>>

NoObject == [kind |-> "none"]

VARIABLES
    pc,                 \* the statement of main about to run
    failedAt,           \* the panic message, "" while running
    devices,            \* the physical devices of the machine, in order
    extent,             \* <<W, H>>, the image extent
    phy_device,         \* index (from 1) of the chosen device, 0: none
    queue_family_index, \* as u32 (from 0), -1: none
    live,               \* the objects constructed so far (moved ones stay)
    image,              \* the Image Resource
    buf,                \* the Staging Buffer
    builder,            \* the commands recorded so far
    command_buffer,     \* the sealed recording
    submissions,        \* command buffers handed to the queue
    fence,              \* "none", "unsignaled", "signaled"
    fences,             \* number of fences created
    gpuIdx,             \* commands of the submission the GPU has executed
    waits,              \* number of returns from future.wait
    buffer_content,     \* what buf.read() gave the host
    image_buffer,       \* the ImageBuffer made of it by from_raw
    png,                \* image.png as written
    stdout              \* the lines printed that matter

envVars == <<devices, extent>>
selVars == <<phy_device, queue_family_index>>
resVars == <<image, buf>>
recVars == <<builder, command_buffer>>
gpuVars == <<submissions, fence, fences, gpuIdx>>
outVars == <<waits, buffer_content, image_buffer, png, stdout>>
vars == <<pc, failedAt, live, envVars, selVars, resVars, recVars, gpuVars, outVars>>

W == extent[1]
H == extent[2]

\* main starts with nothing constructed.  The machine and the extent are
\* the inputs of a run: every enumeration is run with the reference
\* extent, and every extent on the reference machine.
Init ==
    /\ pc = "load_library"
    /\ failedAt = ""
    /\ \E devs \in Enumerations, ext \in Extents :
          /\ devs = RefMachine \/ ext = RefExtent
          /\ devices = devs
          /\ extent = ext
    /\ phy_device = 0
    /\ queue_family_index = -1
    /\ live = {}
    /\ image = NoObject
    /\ buf = NoObject
    /\ builder = <<>>
    /\ command_buffer = NoObject
    /\ submissions = <<>>
    /\ fence = "none"
    /\ fences = 0
    /\ gpuIdx = 0
    /\ waits = 0
    /\ buffer_content = <<>>
    /\ image_buffer = NoObject
    /\ png = NoObject
    /\ stdout = <<>>

(* ------------------------------ helpers ------------------------------- *)

\* expect(msg) / unwrap() on an Err or None: the process panics.
Abort(msg) ==
    /\ pc' = "aborted"
    /\ failedAt' = msg

Goto(next) ==
    /\ pc' = next
    /\ UNCHANGED failedAt

\* A step whose only effect is to construct obj, and which the driver or
\* the library may reject.
Construct(at, obj, next, msg) ==
    /\ pc = at
    /\ \E ok \in BOOLEAN :
          IF ok
          THEN Goto(next) /\ live' = live \cup {obj}
          ELSE Abort(msg) /\ UNCHANGED live

(* -------------------------- Device Selector --------------------------- *)

\* VulkanLibrary::new().expect(..)
LoadLibrary ==
    /\ Construct("load_library", "library", "create_instance",
                 "no local Vulkan library/DLL")
    /\ UNCHANGED <<envVars, selVars, resVars, recVars, gpuVars, outVars>>

\* Instance::new(library, ..).expect(..)
CreateInstance ==
    /\ Construct("create_instance", "instance", "enumerate_print",
                 "create instance failed")
    /\ UNCHANGED <<envVars, selVars, resVars, recVars, gpuVars, outVars>>

\* The first enumeration, whose devices are only printed.
EnumerateAndPrint ==
    /\ pc = "enumerate_print"
    /\ \E ok \in BOOLEAN :
          IF ok THEN Goto("pick_device")
                ELSE Abort("could not enumerate devices")
    /\ UNCHANGED <<live, envVars, selVars, resVars, recVars, gpuVars, outVars>>

\* enumerate_physical_devices().expect(..).next().expect(..): the head of
\* the second enumeration, whatever its queue families are.
PickDevice ==
    /\ pc = "pick_device"
    /\ \E ok \in BOOLEAN :
          IF ~ok THEN Abort("could not enumerate devices")
                      /\ UNCHANGED <<phy_device, live>>
          ELSE IF Len(devices) = 0
               THEN Abort("device not found") /\ UNCHANGED <<phy_device, live>>
               ELSE /\ Goto("find_queue_family")
                    /\ phy_device' = 1
                    /\ live' = live \cup {"phy_device"}
    /\ UNCHANGED <<envVars, queue_family_index, resVars, recVars, gpuVars, outVars>>

\* iter().enumerate().position(|(_, q)| q.queue_flags.contains(GRAPHICS)):
\* the index, counted from 0, of the first family from position i on whose
\* flags contain GRAPHICS; -1 for None.
RECURSIVE Position(_, _)
Position(families, i) ==
    IF i > Len(families) THEN -1
    ELSE IF "GRAPHICS" \in families[i] THEN i - 1
    ELSE Position(families, i + 1)

\* position(..).unwrap_or(0) in place of expect: family 0 is taken when no
\* family has the flag.
FindQueueFamily_Fallback ==
    /\ pc = "find_queue_family"
    /\ LET idx == Position(devices[phy_device], 1) IN
          Goto("create_device") /\ queue_family_index' = IF idx < 0 THEN 0 ELSE idx
    /\ UNCHANGED <<live, envVars, phy_device, resVars, recVars, gpuVars, outVars>>

\* The search runs over the families of phy_device only.
FindQueueFamily ==
    /\ pc = "find_queue_family"
    /\ LET idx == Position(devices[phy_device], 1) IN
          IF idx < 0
          THEN Abort("couldn't find a graphical queue family")
               /\ UNCHANGED queue_family_index
          ELSE Goto("create_device") /\ queue_family_index' = idx
    /\ UNCHANGED <<live, envVars, phy_device, resVars, recVars, gpuVars, outVars>>

\* Device::new(phy_device, ..).expect(..): one logical device, with one
\* queue of the family found.
CreateDevice ==
    /\ pc = "create_device"
    /\ \E ok \in BOOLEAN :
          IF ok
          THEN Goto("take_queue") /\ live' = live \cup {"device", "queues"}
          ELSE Abort("fail to create device") /\ UNCHANGED live
    /\ UNCHANGED <<envVars, selVars, resVars, recVars, gpuVars, outVars>>

\* queues.next().unwrap(): the one queue requested is there.
TakeQueue ==
    /\ pc = "take_queue"
    /\ Goto("load_shader")
    /\ live' = live \cup {"queue"}
    /\ UNCHANGED <<envVars, selVars, resVars, recVars, gpuVars, outVars>>

(* -------------------------- Pipeline Builder -------------------------- *)

\* cs::load(device.clone()).expect(..)
LoadShader ==
    /\ Construct("load_shader", "shader", "shader_stage",
                 "failed to create shader module")
    /\ UNCHANGED <<envVars, selVars, resVars, recVars, gpuVars, outVars>>

\* shader.entry_point("main").unwrap()
ShaderStage ==
    /\ Construct("shader_stage", "stage", "pipeline_layout",
                 "unwrap: entry_point")
    /\ UNCHANGED <<envVars, selVars, resVars, recVars, gpuVars, outVars>>

\* The layout derived from the stage: into_pipeline_layout_create_info
\* is unwrapped, PipelineLayout::new is expected.
CreatePipelineLayout ==
    /\ pc = "pipeline_layout"
    /\ \E r \in {"ok", "unwrap: into_pipeline_layout_create_info",
                 "layout creation error"} :
          IF r = "ok"
          THEN Goto("create_pipeline") /\ live' = live \cup {"layout"}
          ELSE Abort(r) /\ UNCHANGED live
    /\ UNCHANGED <<envVars, selVars, resVars, recVars, gpuVars, outVars>>

\* ComputePipeline::new(..).expect(..)
CreatePipeline ==
    /\ Construct("create_pipeline", "compute_pipeline", "create_image",
                 "fail to create pipeline")
    /\ UNCHANGED <<envVars, selVars, resVars, recVars, gpuVars, outVars>>

(* ------------------------- Resource Allocator ------------------------- *)

Texels(w, h) == (0..(w - 1)) \X (0..(h - 1))

\* Image::new(mem_alloc, ImageCreateInfo {..}, ..).expect(..), after the
\* allocator of line 114.  The memory of a new image is not initialised.
CreateImage ==
    /\ pc = "create_image"
    /\ \E ok \in BOOLEAN, g \in Garbage :
          IF ok
          THEN /\ Goto("create_view")
               /\ live' = live \cup {"mem_alloc", "image"}
               /\ image' = [kind   |-> "image",
                            extent |-> <<W, H, 1>>,
                            format |-> "R8G8B8A8_UNORM",
                            usage  |-> {"STORAGE", "TRANSFER_SRC"},
                            texels |-> [p \in Texels(W, H) |-> Uninitialised(g, p)]]
          ELSE Abort("fail to create image") /\ UNCHANGED <<live, image>>
    /\ UNCHANGED <<envVars, selVars, buf, recVars, gpuVars, outVars>>

\* ImageView::new_default(image.clone()).unwrap()
CreateView ==
    /\ Construct("create_view", "view", "create_buffer", "unwrap: ImageView")
    /\ UNCHANGED <<envVars, selVars, resVars, recVars, gpuVars, outVars>>

\* Three bytes per texel, the alpha channel forgotten.
BufferLen_Rgb(w, h) == w * h * (Channels - 1)

\* The length of the iterator handed to Buffer::from_iter,
\* (0..1024 * 1024 * 4).
BufferLen(w, h) == w * h * Channels

\* Buffer::from_iter(mem_alloc, BufferCreateInfo {..},
\* AllocationCreateInfo {..}, (0..len).map(|_| 0u8)).expect(..)
CreateBuffer ==
    /\ pc = "create_buffer"
    /\ \E ok \in BOOLEAN :
          IF ok
          THEN /\ Goto("get_set_layout")
               /\ live' = live \cup {"buf"}
               /\ buf' = [kind  |-> "buffer",
                          usage |-> {"UNIFORM_BUFFER", "TRANSFER_DST"},
                          memory_type_filter |->
                              {"PREFER_HOST", "HOST_SEQUENTIAL_WRITE"},
                          data  |-> [i \in 1..BufferLen(W, H) |-> 0]]
          ELSE Abort("fail to create buffer") /\ UNCHANGED <<live, buf>>
    /\ UNCHANGED <<envVars, selVars, image, recVars, gpuVars, outVars>>

(* -------------------------- Descriptor Binder ------------------------- *)

\* compute_pipeline.layout().set_layouts().get(0).unwrap()
GetSetLayout ==
    /\ Construct("get_set_layout", "set_layout", "create_descriptor_set",
                 "unwrap: set_layouts().get(0)")
    /\ UNCHANGED <<envVars, selVars, resVars, recVars, gpuVars, outVars>>

\* PersistentDescriptorSet::new(.., [image_view(0, view)], []).expect(..),
\* after the allocator of lines 150-151.
CreateDescriptorSet ==
    /\ pc = "create_descriptor_set"
    /\ \E ok \in BOOLEAN :
          IF ok
          THEN Goto("begin_recording")
               /\ live' = live \cup {"descriptor_set_alloc", "set"}
          ELSE Abort("fail to create persistent descriptor set")
               /\ UNCHANGED live
    /\ UNCHANGED <<envVars, selVars, resVars, recVars, gpuVars, outVars>>

(* --------------------------- Command Recorder ------------------------- *)

Command(op, arg) == [op |-> op, arg |-> arg]

\* AutoCommandBufferBuilder::primary(.., OneTimeSubmit).expect(..), after
\* the allocator of lines 161-166.
BeginRecording ==
    /\ pc = "begin_recording"
    /\ \E ok \in BOOLEAN :
          IF ok
          THEN /\ Goto("record_bind_pipeline")
               /\ live' = live \cup {"command_alloc", "builder"}
               /\ builder' = <<>>
          ELSE Abort("fail to create command buffer")
               /\ UNCHANGED <<live, builder>>
    /\ UNCHANGED <<envVars, selVars, resVars, command_buffer, gpuVars, outVars>>

\* One call of the builder chain: the command is appended, or the call
\* returns an error and the chain panics.
Record(at, cmd, next, msg) ==
    /\ pc = at
    /\ \E ok \in BOOLEAN :
          IF ok
          THEN Goto(next) /\ builder' = Append(builder, cmd)
          ELSE Abort(msg) /\ UNCHANGED builder

\* .bind_pipeline_compute(compute_pipeline.clone()).expect(..)
RecordBindPipeline ==
    /\ Record("record_bind_pipeline", Command("bind_pipeline_compute", <<>>),
              "record_bind_descriptor_sets", "fail to bind compute pipeline")
    /\ UNCHANGED <<live, envVars, selVars, resVars, command_buffer, gpuVars, outVars>>

\* The bind_descriptor_sets call left out of the chain.
RecordBindDescriptorSets_Omitted ==
    /\ pc = "record_bind_descriptor_sets"
    /\ Goto("record_dispatch")
    /\ UNCHANGED <<live, envVars, selVars, resVars, recVars, gpuVars, outVars>>

\* .bind_descriptor_sets(Compute, layout, 0, set).expect(..)
RecordBindDescriptorSets ==
    /\ Record("record_bind_descriptor_sets",
              Command("bind_descriptor_sets", <<FirstSet>>),
              "record_dispatch", "fail to bind descriptor sets")
    /\ UNCHANGED <<live, envVars, selVars, resVars, command_buffer, gpuVars, outVars>>

\* The argument of dispatch, [1024 / 8, 1024 / 8, 1]: integer division.
DispatchGroups(w, h) == <<w \div LocalSize, h \div LocalSize, 1>>

\* .dispatch([..]).unwrap()
RecordDispatch ==
    /\ Record("record_dispatch", Command("dispatch", DispatchGroups(W, H)),
              "record_copy", "unwrap: dispatch")
    /\ UNCHANGED <<live, envVars, selVars, resVars, command_buffer, gpuVars, outVars>>

\* .copy_image_to_buffer(CopyImageToBufferInfo::image_buffer(image, buf))
\* .expect(..): the call is rejected when the buffer cannot hold the image.
RecordCopy ==
    /\ pc = "record_copy"
    /\ \E ok \in BOOLEAN :
          IF ok /\ Len(buf.data) >= image.extent[1] * image.extent[2] * Channels
          THEN /\ Goto("build")
               /\ builder' = Append(builder, Command("copy_image_to_buffer", <<>>))
          ELSE Abort("fail to set up the command buffer") /\ UNCHANGED builder
    /\ UNCHANGED <<live, envVars, selVars, resVars, command_buffer, gpuVars, outVars>>

\* builder.build().expect(..): the builder is consumed, the recording sealed.
Build ==
    /\ pc = "build"
    /\ \E ok \in BOOLEAN :
          IF ok
          THEN /\ Goto("submit")
               /\ command_buffer' = [kind |-> "command_buffer", commands |-> builder]
               /\ builder' = <<>>
               /\ live' = live \cup {"command_buffer"}
          ELSE Abort("fail to build the command buffer")
               /\ UNCHANGED <<live, builder, command_buffer>>
    /\ UNCHANGED <<envVars, selVars, resVars, gpuVars, outVars>>

(* -------------------------- Submission & Sync ------------------------- *)

\* sync::now(device).then_execute(queue, command_buffer).unwrap(): the
\* command buffer moves into the future; nothing reaches the queue yet.
ThenExecute ==
    /\ pc = "submit"
    /\ \E ok \in BOOLEAN :
          IF ok
          THEN Goto("flush")
               /\ live' = live \cup {"exec_future"}
          ELSE Abort("unwrap: then_execute") /\ UNCHANGED live
    /\ UNCHANGED <<envVars, selVars, resVars, recVars, gpuVars, outVars>>

\* The command buffer submitted a second time, each time with a fence.
SignalFenceAndFlush_Twice ==
    /\ pc = "flush"
    /\ Goto("wait")
    /\ live' = live \cup {"future"}
    /\ submissions' = submissions \o <<command_buffer.commands, command_buffer.commands>>
    /\ fence' = "unsignaled"
    /\ fences' = fences + 2
    /\ UNCHANGED <<envVars, selVars, resVars, recVars, gpuIdx, outVars>>

\* .then_signal_fence_and_flush().unwrap(): a fence is created and the
\* command buffer is submitted to the queue with it.
SignalFenceAndFlush ==
    /\ pc = "flush"
    /\ \E ok \in BOOLEAN :
          IF ok
          THEN /\ Goto("wait")
               /\ live' = live \cup {"future"}
               /\ submissions' = Append(submissions, command_buffer.commands)
               /\ fence' = "unsignaled"
               /\ fences' = fences + 1
          ELSE /\ Abort("unwrap: then_signal_fence_and_flush")
               /\ UNCHANGED <<live, submissions, fence, fences>>
    /\ UNCHANGED <<envVars, selVars, resVars, recVars, gpuIdx, outVars>>

\* The statement future.wait(None).unwrap() left out: the host goes on to
\* the read without waiting.
FenceWait_Skipped ==
    /\ pc = "wait"
    /\ Goto("read")
    /\ UNCHANGED <<live, envVars, selVars, resVars, recVars, gpuVars, outVars>>

\* A wait with a timeout whose result is dropped, let _ = future.wait(Some(t)):
\* the call returns whether or not the fence is signaled.
FenceWait_TimedOut ==
    /\ pc = "wait"
    /\ Goto("read")
    /\ waits' = waits + 1
    /\ UNCHANGED <<live, envVars, selVars, resVars, recVars, gpuVars,
                   buffer_content, image_buffer, png, stdout>>

\* future.wait(None).unwrap(): without a timeout the call returns Ok only
\* once the fence is signaled; it returns Err when the driver reports an
\* error (the device is lost), and the unwrap panics.
FenceWait ==
    /\ pc = "wait"
    /\ \/ /\ fence = "signaled"
          /\ Goto("read")
          /\ waits' = waits + 1
       \/ /\ Abort("unwrap: wait")
          /\ UNCHANGED waits
    /\ UNCHANGED <<live, envVars, selVars, resVars, recVars, gpuVars,
                   buffer_content, image_buffer, png, stdout>>

(* -------------------------------- GPU --------------------------------- *)

\* What the compute program stores at texel (x, y).
ShaderPixel(x, y) == <<x % 256, y % 256, 0, 255>>

\* dispatch(groups): one invocation per point of the grid of
\* groups * LocalSize; an invocation inside the image stores its texel.
ExecDispatch(texels, groups) ==
    [p \in DOMAIN texels |->
        IF p[1] < groups[1] * LocalSize /\ p[2] < groups[2] * LocalSize
           /\ groups[3] >= 1
        THEN ShaderPixel(p[1], p[2])
        ELSE texels[p]]

\* The bytes of row y from texel x on, left to right.
RECURSIVE RowBytes(_, _, _, _)
RowBytes(texels, w, y, x) ==
    IF x >= w THEN <<>>
    ELSE texels[<<x, y>>] \o RowBytes(texels, w, y, x + 1)

\* The bytes of the image from row y on, top to bottom.
RECURSIVE ImageBytes(_, _, _, _)
ImageBytes(texels, w, h, y) ==
    IF y >= h THEN <<>>
    ELSE RowBytes(texels, w, y, 0) \o ImageBytes(texels, w, h, y + 1)

\* copy_image_to_buffer(image_buffer(image, buf)): the whole image, tightly
\* packed, from offset 0 of the buffer.
ExecCopy(img, data) ==
    LET bytes == ImageBytes(img.texels, img.extent[1], img.extent[2], 0) IN
    [i \in 1..Len(data) |-> IF i <= Len(bytes) THEN bytes[i] ELSE data[i]]

\* The GPU executes the next command of the submission.
GpuExecute ==
    /\ pc # "aborted"
    /\ fence = "unsignaled"
    /\ gpuIdx < Len(submissions[1])
    /\ LET cmd == submissions[1][gpuIdx + 1] IN
          /\ image' = IF cmd.op = "dispatch"
                      THEN [image EXCEPT !.texels = ExecDispatch(@, cmd.arg)]
                      ELSE image
          /\ buf' = IF cmd.op = "copy_image_to_buffer"
                    THEN [buf EXCEPT !.data = ExecCopy(image, @)]
                    ELSE buf
    /\ gpuIdx' = gpuIdx + 1
    /\ UNCHANGED <<pc, failedAt, live, envVars, selVars, recVars,
                   submissions, fence, fences, outVars>>

\* The GPU has executed the whole submission and signals its fence.
GpuSignal ==
    /\ pc # "aborted"
    /\ fence = "unsignaled"
    /\ gpuIdx = Len(submissions[1])
    /\ fence' = "signaled"
    /\ UNCHANGED <<pc, failedAt, live, envVars, selVars, resVars, recVars,
                   submissions, fences, gpuIdx, outVars>>

(* ------------------------------ Exporter ------------------------------ *)

\* buf.read().unwrap(): the host maps the buffer and sees its bytes.
ReadBuffer ==
    /\ pc = "read"
    /\ \E ok \in BOOLEAN :
          IF ok
          THEN Goto("from_raw") /\ buffer_content' = buf.data
          ELSE Abort("unwrap: read") /\ UNCHANGED buffer_content
    /\ UNCHANGED <<live, envVars, selVars, resVars, recVars, gpuVars,
                   waits, image_buffer, png, stdout>>

\* ImageBuffer::<Rgba<u8>, _>::from_raw(1024, 1024, &buffer_content[..])
\* .unwrap(): None when the slice is shorter than width * height * 4.
FromRaw ==
    /\ pc = "from_raw"
    /\ IF Len(buffer_content) >= W * H * Channels
       THEN /\ Goto("save")
            /\ image_buffer' = [kind |-> "image_buffer", width |-> W,
                                height |-> H, data |-> buffer_content]
       ELSE Abort("unwrap: from_raw") /\ UNCHANGED image_buffer
    /\ UNCHANGED <<live, envVars, selVars, resVars, recVars, gpuVars,
                   waits, buffer_content, png, stdout>>

\* Pixel (x, y) of an ImageBuffer: the Channels bytes from index
\* (y * width + x) * Channels of its container.
GetPixel(img, x, y) ==
    LET first == (y * img.width + x) * Channels IN
    [c \in 1..Channels |-> img.data[first + c]]

\* The result of save dropped, let _ = image.save(..): main goes on
\* whether or not the file was written.
Save_ResultIgnored ==
    /\ pc = "save"
    /\ Goto("print")
    /\ UNCHANGED <<live, envVars, selVars, resVars, recVars, gpuVars, outVars>>

\* image.save("image.png").unwrap(): the file holds the pixel grid.
Save ==
    /\ pc = "save"
    /\ \E ok \in BOOLEAN :
          IF ok
          THEN /\ Goto("print")
               /\ png' = [kind |-> "png", path |-> "image.png",
                          width |-> image_buffer.width,
                          height |-> image_buffer.height,
                          pixels |-> [p \in Texels(image_buffer.width,
                                                   image_buffer.height) |->
                                         GetPixel(image_buffer, p[1], p[2])]]
          ELSE Abort("unwrap: save") /\ UNCHANGED png
    /\ UNCHANGED <<live, envVars, selVars, resVars, recVars, gpuVars,
                   waits, buffer_content, image_buffer, stdout>>

\* println!("Everything succeeded!") and the return from main.
PrintSuccess ==
    /\ pc = "print"
    /\ Goto("done")
    /\ stdout' = Append(stdout, "Everything succeeded!")
    /\ UNCHANGED <<live, envVars, selVars, resVars, recVars, gpuVars,
                   waits, buffer_content, image_buffer, png>>

(* --------------------------- specification ---------------------------- *)

Host ==
    \/ LoadLibrary
    \/ CreateInstance
    \/ EnumerateAndPrint
    \/ PickDevice
    \/ FindQueueFamily
    \/ CreateDevice
    \/ TakeQueue
    \/ LoadShader
    \/ ShaderStage
    \/ CreatePipelineLayout
    \/ CreatePipeline
    \/ CreateImage
    \/ CreateView
    \/ CreateBuffer
    \/ GetSetLayout
    \/ CreateDescriptorSet
    \/ BeginRecording
    \/ RecordBindPipeline
    \/ RecordBindDescriptorSets
    \/ RecordDispatch
    \/ RecordCopy
    \/ Build
    \/ ThenExecute
    \/ SignalFenceAndFlush
    \/ FenceWait
    \/ ReadBuffer
    \/ FromRaw
    \/ Save
    \/ PrintSuccess

Gpu == GpuExecute \/ GpuSignal

Next == Host \/ Gpu

Spec == Init /\ [][Next]_vars

\* A host step that is not a panic.
HostProgress == Host /\ pc' # "aborted"

\* The GPU makes progress on what was submitted to it, and the host thread
\* does not stall: a statement that can complete is eventually run (or
\* panics).  Nothing obliges the driver to report an error.
LiveSpec == Spec /\ WF_vars(Gpu) /\ WF_vars(HostProgress)

(* ------------------------------ claims -------------------------------- *)

\* The statements of main placed after future.wait.
AfterWait == {"read", "from_raw", "save", "print", "done"}

\* C1: the host never reads the Staging Buffer, and no step placed after
\* the wait (map, decode, save, success print) begins or has had an effect,
\* unless the wait has returned with the fence of the one submission
\* signaled, the GPU having executed the whole submission.
C1_ReadAfterFenceSignaled ==
    /\ pc \in AfterWait =>
          /\ fence = "signaled"
          /\ waits = 1
          /\ gpuIdx = Len(submissions[1])
    /\ (\/ buffer_content # <<>>
        \/ image_buffer # NoObject
        \/ png # NoObject
        \/ stdout # <<>>) =>
          /\ fence = "signaled"
          /\ waits = 1
          /\ buffer_content = buf.data

\* C1 witness: the host has read the buffer, after the GPU ran the
\* submission and the wait returned.
C1_Witness ==
    /\ pc = "from_raw"
    /\ buffer_content # <<>>
    /\ waits = 1
    /\ gpuIdx = 4

\* A device qualifies when one of its queue families has the GRAPHICS flag.
Qualifies(families) == \E i \in 1..Len(families) : "GRAPHICS" \in families[i]

QualifyingDevices == {d \in 1..Len(devices) : Qualifies(devices[d])}

FirstQualifying == CHOOSE d \in QualifyingDevices : \A e \in QualifyingDevices : d <= e

\* The panics of the Device Selector's search.
SelectionFailures == {"device not found", "couldn't find a graphical queue family"}

\* The panics that end the run before the Device Selector sees a device.
BeforeSelection ==
    {"no local Vulkan library/DLL", "create instance failed",
     "could not enumerate devices"}

\* C2: whenever some enumerated device has a queue family with the
\* GRAPHICS flag, the Device Selector does not fail its search, and the
\* device it selects is the first such device in enumeration order.
C2_SelectsFirstQualifyingDevice ==
    QualifyingDevices # {} =>
        /\ failedAt \notin SelectionFailures
        /\ phy_device # 0 => phy_device = FirstQualifying

\* No logical device and no queue exists, and main has not passed the
\* creation of the device.
NoDeviceOpened ==
    /\ live \cap {"device", "queues", "queue"} = {}
    /\ queue_family_index = -1
    /\ pc \in {"load_library", "create_instance", "enumerate_print",
               "pick_device", "find_queue_family", "aborted"}

\* C3 as stated: when no enumerated device has a queue family with the
\* GRAPHICS flag, the empty enumeration included, the Device Selector ends
\* the run with "couldn't find a graphical queue family", and no logical
\* device or queue is ever created.
C3_FailsNoSuitableQueueFamily ==
    QualifyingDevices = {} =>
        /\ NoDeviceOpened
        /\ (pc = "aborted" /\ failedAt \notin BeforeSelection) =>
              failedAt = "couldn't find a graphical queue family"

\* C3 as amended: when no enumerated device has a queue family with the
\* GRAPHICS flag, the Device Selector ends the run with "couldn't find a
\* graphical queue family" if a device was enumerated and with "device not
\* found" if the enumeration is empty; in both cases no logical device or
\* queue is ever created.
C3_FailsWithoutDevice ==
    QualifyingDevices = {} =>
        /\ NoDeviceOpened
        /\ (pc = "aborted" /\ failedAt \notin BeforeSelection) =>
              failedAt = IF Len(devices) = 0
                         THEN "device not found"
                         ELSE "couldn't find a graphical queue family"

\* C3 witness: two devices, none with a graphics family, and the run ended
\* by the Device Selector.
C3_Witness ==
    /\ Len(devices) = 2
    /\ QualifyingDevices = {}
    /\ pc = "aborted"
    /\ failedAt = "couldn't find a graphical queue family"

\* The least number of groups of b that cover a.
Ceil(a, b) == (a + b - 1) \div b

\* The dispatch commands recorded or sealed so far.
RecordedDispatches ==
    {builder[i] : i \in {j \in 1..Len(builder) : builder[j].op = "dispatch"}}
    \cup (IF command_buffer = NoObject THEN {}
          ELSE {command_buffer.commands[i] :
                  i \in {j \in 1..Len(command_buffer.commands) :
                            command_buffer.commands[j].op = "dispatch"}})

ByteAt(data, w, x, y, c) == data[Channels * (y * w + x) + c + 1]

\* C5: the Staging Buffer is W * H * 4 bytes long for the extent W x H of
\* the Image Resource, the Exporter decodes exactly that many bytes as a
\* grid of the same W and H, and the byte at offset 4 * (y * W + x) + c
\* written by the copy is channel c of texel (x, y) of the image and of
\* pixel (x, y) of the exported grid.
C5_SizesAndLayoutAgree ==
    /\ image # NoObject => image.extent = <<W, H, 1>>
    /\ buf # NoObject =>
          /\ image # NoObject
          /\ Len(buf.data) = image.extent[1] * image.extent[2] * 4
    /\ (fence # "none" /\ gpuIdx = Len(submissions[1])) =>
          \A p \in DOMAIN image.texels : \A c \in 0..3 :
              ByteAt(buf.data, image.extent[1], p[1], p[2], c) = image.texels[p][c + 1]
    /\ image_buffer # NoObject =>
          /\ image_buffer.width = image.extent[1]
          /\ image_buffer.height = image.extent[2]
          /\ Len(image_buffer.data) = Len(buf.data)
    /\ png # NoObject =>
          /\ png.width = image.extent[1]
          /\ png.height = image.extent[2]
          /\ DOMAIN png.pixels = DOMAIN image.texels
          /\ \A p \in DOMAIN png.pixels :
                /\ Len(png.pixels[p]) = 4
                /\ png.pixels[p] = image.texels[p]
                /\ \A c \in 0..3 :
                      png.pixels[p][c + 1] = ByteAt(buf.data, png.width, p[1], p[2], c)

\* C5 witness: image.png written for an image wider than high, of which
\* the compute program wrote a part.
C5_Witness ==
    /\ pc = "done"
    /\ png # NoObject
    /\ W = 9
    /\ H = 8
    /\ png.pixels[<<7, 7>>] = ShaderPixel(7, 7)

\* The statements of main, in source order.
Statements ==
    << "load_library", "create_instance", "enumerate_print", "pick_device",
       "find_queue_family", "create_device", "take_queue", "load_shader",
       "shader_stage", "pipeline_layout", "create_pipeline", "create_image",
       "create_view", "create_buffer", "get_set_layout",
       "create_descriptor_set", "begin_recording", "record_bind_pipeline",
       "record_bind_descriptor_sets", "record_dispatch", "record_copy",
       "build", "submit", "flush", "wait", "read", "from_raw", "save",
       "print", "done" >>

StatementNo(s) == CHOOSE i \in 1..Len(Statements) : Statements[i] = s

\* The objects a statement constructs when it succeeds.
Constructs(s) ==
    CASE s = "load_library" -> {"library"}
      [] s = "create_instance" -> {"instance"}
      [] s = "pick_device" -> {"phy_device"}
      [] s = "create_device" -> {"device", "queues"}
      [] s = "take_queue" -> {"queue"}
      [] s = "load_shader" -> {"shader"}
      [] s = "shader_stage" -> {"stage"}
      [] s = "pipeline_layout" -> {"layout"}
      [] s = "create_pipeline" -> {"compute_pipeline"}
      [] s = "create_image" -> {"mem_alloc", "image"}
      [] s = "create_view" -> {"view"}
      [] s = "create_buffer" -> {"buf"}
      [] s = "get_set_layout" -> {"set_layout"}
      [] s = "create_descriptor_set" -> {"descriptor_set_alloc", "set"}
      [] s = "begin_recording" -> {"command_alloc", "builder"}
      [] s = "build" -> {"command_buffer"}
      [] s = "submit" -> {"exec_future"}
      [] s = "flush" -> {"future"}
      [] OTHER -> {}

\* The objects constructed when the first n statements have succeeded.
ConstructedBy(n) == UNION {Constructs(Statements[i]) : i \in 1..n}

\* In every state the objects constructed are exactly those of an initial
\* segment of the statements, the data of later stages is untouched, and
\* the confirmation is printed only by a run in which all succeeded.
FailFastState ==
    /\ \E n \in 0..Len(Statements) : ConstructedBy(n) = live
    /\ pc # "aborted" => live = ConstructedBy(StatementNo(pc) - 1)
    /\ pc = "aborted" <=> failedAt # ""
    /\ image = NoObject <=> "image" \notin live
    /\ buf = NoObject <=> "buf" \notin live
    /\ "builder" \notin live => builder = <<>>
    /\ command_buffer = NoObject <=> "command_buffer" \notin live
    /\ "future" \notin live =>
          submissions = <<>> /\ fence = "none" /\ waits = 0
    /\ waits = 0 => buffer_content = <<>>
    /\ buffer_content = <<>> => image_buffer = NoObject
    /\ image_buffer = NoObject => png = NoObject
    /\ png = NoObject => stdout = <<>>
    /\ failedAt = "fail to create image" =>
          /\ live \cap {"image", "buf", "set", "builder", "command_buffer"} = {}
          /\ buf = NoObject /\ builder = <<>> /\ command_buffer = NoObject
    /\ stdout # <<>> =>
          /\ pc = "done"
          /\ live = ConstructedBy(Len(Statements))
          /\ png # NoObject

\* A host step goes to the next statement in source order or panics; a
\* panic is final: nothing runs, is retried or is constructed after it.
FailFastStep ==
    /\ pc # "aborted"
    /\ pc # "done"
    /\ \/ pc' = pc
       \/ pc' = "aborted"
       \/ pc' = Statements[StatementNo(pc) + 1]
    /\ live \subseteq live'

\* C6: the stages run in source order; a stage that fails ends the process
\* there, so that no later stage runs and no later object is constructed
\* (after a failed image allocation: no Staging Buffer, Descriptor Set or
\* Command Sequence); nothing is retried; and the confirmation is printed
\* only when every stage, the PNG write included, has succeeded.
C6_FailFast == [](FailFastState) /\ [][FailFastStep]_vars

\* C6 witness: the image allocation failed, after the pipeline was built.
C6_Witness ==
    /\ pc = "aborted"
    /\ failedAt = "fail to create image"
    /\ "compute_pipeline" \in live

\* The operations of a recording, with the set index of the descriptor bind.
Ops(commands) ==
    [i \in 1..Len(commands) |->
        IF commands[i].op = "bind_descriptor_sets"
        THEN <<commands[i].op, commands[i].arg[1]>>
        ELSE <<commands[i].op>>]

\* The recording the Command Recorder is to make.
StrictOrder ==
    << <<"bind_pipeline_compute">>, <<"bind_descriptor_sets", 0>>,
       <<"dispatch">>, <<"copy_image_to_buffer">> >>

IsPrefix(s, t) == Len(s) <= Len(t) /\ s = SubSeq(t, 1, Len(s))

\* The recording grows in the strict order, and a sealed recording holds
\* exactly the four operations.
RecordingState ==
    /\ IsPrefix(Ops(builder), StrictOrder)
    /\ command_buffer # NoObject =>
          /\ Ops(command_buffer.commands) = StrictOrder
          /\ builder = <<>>
    /\ pc \in {"build"} => Ops(builder) = StrictOrder

\* Once sealed, the recording does not change and nothing more is recorded.
SealedStep ==
    command_buffer # NoObject =>
        /\ command_buffer' = command_buffer
        /\ builder' = builder

\* C7: the one recording holds exactly four operations in this order: bind
\* the compute pipeline, bind the descriptor set at set index 0, dispatch,
\* copy the image to the staging buffer; dispatch is never recorded before
\* both binds nor the copy before the dispatch, and nothing is recorded
\* after build() sealed the recording.
C7_RecordingOrder == [](RecordingState) /\ [][SealedStep]_vars

\* C7 witness: the sealed recording of four commands, about to be submitted.
C7_Witness ==
    /\ pc = "submit"
    /\ command_buffer # NoObject
    /\ Len(command_buffer.commands) = 4

\* C8: the Image Resource is created with usage {storage, copy-source} and
\* the Staging Buffer with usage {copy-destination} and the memory
\* preference host-visible plus host-sequential-write; no other usage flag
\* is requested for either.
C8_UsageSets ==
    /\ image # NoObject => image.usage = {"STORAGE", "TRANSFER_SRC"}
    /\ buf # NoObject =>
          /\ buf.usage = {"TRANSFER_DST"}
          /\ buf.memory_type_filter = {"PREFER_HOST", "HOST_SEQUENTIAL_WRITE"}

\* At most one submission, fence and wait; the submission is the sealed
\* recording; the wait follows the flush; a finished run has one of each.
OneShotState ==
    /\ Len(submissions) <= 1
    /\ fences = Len(submissions)
    /\ waits <= 1
    /\ fence = "none" <=> fences = 0
    /\ Len(submissions) = 1 =>
          /\ command_buffer # NoObject
          /\ submissions[1] = command_buffer.commands
    /\ waits = 1 => (Len(submissions) = 1 /\ fence = "signaled")
    /\ pc \in AfterWait => (Len(submissions) = 1 /\ fences = 1 /\ waits = 1)

\* The recording is built once, a submission is never withdrawn or
\* replaced, and the fence never leaves the signaled state.
OneShotStep ==
    /\ command_buffer # NoObject => command_buffer' = command_buffer
    /\ IsPrefix(submissions, submissions')
    /\ fence = "signaled" => fence' = "signaled"
    /\ fence = "unsignaled" => fence' \in {"unsignaled", "signaled"}
    /\ waits' >= waits

\* C9: the Command Sequence is built once and submitted at most once, one
\* Completion Signal is created for the submission, it goes from
\* unsignaled to signaled at most once and never back, the host waits on
\* it once (and no run waits more than once); the submission is made only
\* after the recording is sealed and the wait only after the flush.
C9_OneShot == [](OneShotState) /\ [][OneShotStep]_vars

\* C9 witness: a finished run, with its one submission, fence and wait.
C9_Witness ==
    /\ pc = "done"
    /\ Len(submissions) = 1
    /\ fences = 1
    /\ waits = 1

\* C10 as stated: the host stays in the wait for as long as the Completion
\* Signal is unsignaled.
C10_BlockedWhileUnsignaled ==
    [][(pc = "wait" /\ fence # "signaled") => pc' = "wait"]_vars

\* The host leaves the wait only with the fence signaled, for the read,
\* or by the panic of the wait's own unwrap.
LeavesWait ==
    (pc = "wait" /\ pc' # "wait") =>
        \/ fence = "signaled" /\ pc' = "read" /\ waits' = waits + 1
        \/ pc' = "aborted" /\ failedAt' = "unwrap: wait" /\ png' = NoObject

Exported ==
    /\ pc = "done"
    /\ buffer_content # <<>>
    /\ png # NoObject
    /\ stdout = <<"Everything succeeded!">>

\* C10 as amended: there is no cancellation and no timeout: the host leaves
\* the wait only once the Completion Signal is signaled, or when the wait
\* itself fails (the driver reports an error), which ends the process at
\* the wait without an export; if the GPU eventually finishes the sequence
\* and no step fails, the run reads the buffer, writes image.png, prints
\* the confirmation and terminates; as long as the signal is unsignaled no
\* export is reached and the run does not complete.
C10_WaitsForSignal ==
    /\ [][LeavesWait]_vars
    /\ []((pc \in AfterWait \/ png # NoObject) => fence = "signaled")
    /\ ([](pc # "aborted")) => ((pc = "wait") ~> Exported)

\* C10 witness: a run that went through the wait and finished the export.
C10_Witness ==
    /\ Exported
    /\ waits = 1
    /\ fence = "signaled"

====
